---- MODULE Spec2Model ----
(***************************************************************************)
(* A model of ezmongo.js: the hook registry (MongoMiddleware), the         *)
(* operation runner (MongoHelperClass), the collection and document        *)
(* wrappers (MongoCollection, MongoDocument) and the connection            *)
(* (MongoConnection).                                                      *)
(*                                                                         *)
(* JavaScript runs one task at a time; a task gives up control only at an  *)
(* await.  An action of this model is therefore either a call of a public  *)
(* method, run up to its first await on a pending promise, or the          *)
(* resumption of a suspended call, run up to its next such await.          *)
(***************************************************************************)
EXTENDS Naturals, Sequences, FiniteSets

\* ------------------------------------------------------------------ bounds
MaxUses == 2        \* use() calls in a behaviour
MaxRuns == 1        \* direct run()/runMiddleware() calls in a behaviour
MaxCalls == 2       \* CRUD calls in a behaviour
MaxListeners == 1   \* listener registrations in a behaviour
MaxConnCalls == 3   \* connect/close/getCollection calls in a behaviour

\* ------------------------------------------------------------- input sets
\* static Hooks = { BEFORE_CREATE: 'beforeCreate', ... }
Hooks ==
    [ BEFORE_CREATE |-> "beforeCreate", AFTER_CREATE |-> "afterCreate",
      BEFORE_READ   |-> "beforeRead",   AFTER_READ   |-> "afterRead",
      BEFORE_UPDATE |-> "beforeUpdate", AFTER_UPDATE |-> "afterUpdate",
      BEFORE_DELETE |-> "beforeDelete", AFTER_DELETE |-> "afterDelete" ]

HookKeys == DOMAIN Hooks

\* The eight recognized identifiers: the own keys of middlewareStack.
HookNames == { Hooks[k] : k \in HookKeys }

\* Names every plain object inherits from Object.prototype (a sample).
ObjectPrototypeNames == { "constructor" }

\* Hook names a caller may pass.
NameInputs == HookNames \cup HookKeys \cup ObjectPrototypeNames \cup { "bogus" }

\* The owners of a MongoMiddleware: the collection and the document handle.
\* The MongoConnection instances of the process.
Conns == { "c1", "c2" }

Handles == { "h1" }
Regs == { "coll" } \cup Handles
NoMiddleware == "null"

DocIds == { "idX", "idY" }
Absent == "absent"

VARIABLES
    middlewareStack,   \* [Regs -> [HookNames -> Seq(callback)]]
    nUse,              \* number of use() calls so far
    lastUse,           \* the latest use() call and how it ended
    tasks,             \* the async calls made so far, in call order; each
                       \* carries the log of what it invoked, in order
    store,             \* the database: [DocIds -> value or Absent]
    handles,           \* [Handles -> the MongoDocument's fields]
    listeners,         \* [Handles -> [event name -> Seq(listener id)]]
    isConnected,       \* [Conns -> BOOLEAN]: each MongoConnection's flag
    driverOpen,        \* whether mongoose's (module-level) connection is open
    connCalls          \* the connect/close/getCollection calls made so far

hookVars == << middlewareStack, nUse, lastUse, tasks, store, handles, listeners >>
connVars == << isConnected, driverOpen, connCalls >>
vars == << hookVars, connVars >>

\* ------------------------------------------------------------------ errors
NoErr == [kind |-> "none", cb |-> 0]
Err(k) == [kind |-> k, cb |-> 0]
\* The error a throwing callback raises: its own.
CbErr(id) == [kind |-> "callback", cb |-> id]

\* ------------------------------------------------------- MongoMiddleware
\* constructor: every recognized name maps to an empty list.
EmptyStack == [h \in HookNames |-> << >>]

\* What this.middlewareStack[when] evaluates to.
StackLookup(when) ==
    IF when \in HookNames THEN "array"
    ELSE IF when \in ObjectPrototypeNames THEN "inherited"
    ELSE "undefined"

\* use(when, fn): how the call ends.
UseError(when) ==
    CASE StackLookup(when) = "array"     -> NoErr
      [] StackLookup(when) = "inherited" -> Err("TypeError")   \* .push is not a function
      [] OTHER                           -> Err("InvalidHook")

\* use(when, fn): the registry after the call.
UsePush(r, when, fn) ==
    IF StackLookup(when) = "array"
    THEN [middlewareStack EXCEPT ![r][when] = Append(@, fn)]
    ELSE middlewareStack

\* A callback is a fresh function object per use() call; whether it throws when
\* invoked is the caller's choice.
Use(r, when, throws) ==
    /\ nUse < MaxUses
    /\ nUse' = nUse + 1
    /\ lastUse' = [reg |-> r, when |-> when, err |-> UseError(when)]
    /\ middlewareStack' = UsePush(r, when, [id |-> nUse + 1, throws |-> throws])
    /\ UNCHANGED << tasks, store, handles, listeners >>
    /\ UNCHANGED connVars

\* ------------------------------------------------------------ listeners
EventNames == { "OnCreate", "OnUpdate", "OnDelete", "OnSave" }

NumListeners ==
    LET n[S \in SUBSET ((DOMAIN listeners) \X EventNames)] ==
            IF S = {} THEN 0
            ELSE LET p == CHOOSE q \in S : TRUE
                 IN  Len(listeners[p[1]][p[2]]) + n[S \ {p}]
    IN  n[(DOMAIN listeners) \X EventNames]

\* ------------------------------------------------------------ the calls
CollectionKinds == { "create", "findById", "read", "readOne", "update", "delete", "deleteMany" }
DocumentKinds == { "docSave", "docUpdate", "docDelete" }

\* The { before, after } pair each entry point hands to runCRUDOperation.
CreatePair == [before |-> Hooks.BEFORE_CREATE, after |-> Hooks.AFTER_CREATE]
ReadPair   == [before |-> Hooks.BEFORE_READ,   after |-> Hooks.AFTER_READ]
UpdatePair == [before |-> Hooks.BEFORE_UPDATE, after |-> Hooks.AFTER_UPDATE]
DeletePair == [before |-> Hooks.BEFORE_DELETE, after |-> Hooks.AFTER_DELETE]

CollectionPair(kind) ==
    CASE kind = "create"                         -> CreatePair
      [] kind \in { "findById", "read", "readOne" } -> ReadPair
      [] kind = "update"                         -> UpdatePair
      [] kind \in { "delete", "deleteMany" }     -> DeletePair

\* A call in flight or finished.  pc is where it is suspended ("awaitCb": on a
\* hook callback, "awaitOp": on the driver) or how it ended.
NewTask(kind, reg, pair, h, target) ==
    [ kind |-> kind, reg |-> reg, before |-> pair.before, after |-> pair.after,
      handle |-> h, target |-> target,
      stage |-> "call", idx |-> 0, pc |-> "running",
      err |-> NoErr, result |-> "none", log |-> << >>,
      \* the use() calls that came before this one (kept for CRUD calls)
      regAt |-> IF kind \in { "run", "runMiddleware" } THEN 0 ELSE nUse,
      \* the listeners registered before this call (kept for document calls)
      lisAt |-> IF kind \in DocumentKinds THEN NumListeners ELSE 0 ]

World == [tasks |-> tasks, store |-> store, handles |-> handles]

Apply(w) ==
    /\ tasks' = w.tasks
    /\ store' = w.store
    /\ handles' = w.handles

\* seen: for a listener, the field values of the handle it was handed.
Event(ev, hook, id) == [ev |-> ev, hook |-> hook, id |-> id, seen |-> "none"]

\* The hook name the call's current stage runs.
StageHook(rec) ==
    CASE rec.stage \in { "run", "before" } -> rec.before
      [] rec.stage = "after"               -> rec.after
      [] rec.stage = "inner.before"        -> Hooks.BEFORE_UPDATE
      [] rec.stage = "inner.after"         -> Hooks.AFTER_UPDATE
      [] OTHER                             -> "none"

\* MongoMiddleware.Hooks[hook], as runMiddleware tests it.
HooksLookup(hook) == hook \in HookKeys \cup ObjectPrototypeNames

RunListReversed(r, when) ==
    IF when \in HookNames
    THEN LET l == middlewareStack[r][when] IN [i \in 1..Len(l) |-> l[Len(l) + 1 - i]]
    ELSE << >>

\* this.middlewareStack[when] || []
RunList(r, when) ==
    IF when \in HookNames THEN middlewareStack[r][when] ELSE << >>

\* emit(event, this): every listener of the event, synchronously, in order, each
\* handed the handle as it is at that moment.
Emit(w, t, h, event) ==
    LET ls == listeners[h][event]
    IN  [w EXCEPT !.tasks[t].log = Append(@, Event("emit", event, 0))
                      \o [i \in 1..Len(ls) |->
                             [Event("listener", event, ls[i]) EXCEPT !.seen = w.handles[h].val]]]

RECURSIVE EnterHook(_, _, _, _)
RECURSIVE RunFrom(_, _, _)
RECURSIVE HookDone(_, _)
RECURSIVE StartOperation(_, _)
RECURSIVE Complete(_, _, _, _, _)

FinishEmitsAlways(w, t, ok, err, result) ==
    LET rec == w.tasks[t]
        w1 == IF rec.kind \in DocumentKinds THEN Emit(w, t, rec.handle, "OnUpdate") ELSE w
    IN  [ w1 EXCEPT !.tasks[t].pc = IF ok THEN "resolved" ELSE "rejected",
                    !.tasks[t].err = err,
                    !.tasks[t].result = IF ok THEN result ELSE "none" ]

\* The .then callbacks of MongoDocument.save / update / delete, and the promise
\* the caller holds settling.
Finish(w, t, ok, err, result) ==
    LET rec == w.tasks[t]
        h == rec.handle
        w1 == IF ~ok THEN w
              ELSE CASE rec.kind = "docSave" ->
                          [ Emit(w, t, h, IF w.handles[h].isNew THEN "OnCreate" ELSE "OnUpdate")
                              EXCEPT !.handles[h].document = result ]
                     [] rec.kind = "docUpdate" ->
                          [ Emit(w, t, h, "OnUpdate")
                              EXCEPT !.handles[h].val = result, !.handles[h].isNew = FALSE ]
                     [] rec.kind = "docDelete" -> Emit(w, t, h, "OnDelete")
                     [] OTHER -> w
    IN  [ w1 EXCEPT !.tasks[t].pc = IF ok THEN "resolved" ELSE "rejected",
                    !.tasks[t].err = err,
                    !.tasks[t].result = IF ok THEN result ELSE "none" ]

\* for (let fn of fns) await fn(...args): invoke callback i, or leave the loop.
\* The array is read as it is now: the iterator is live.
RunFrom(w, t, i) ==
    LET rec == w.tasks[t]
        fns == RunList(rec.reg, StageHook(rec))
    IN  IF i <= Len(fns)
        THEN [ w EXCEPT !.tasks[t].idx = i, !.tasks[t].pc = "awaitCb",
                        !.tasks[t].log = Append(@, Event("cb", StageHook(rec), fns[i].id)) ]
        ELSE HookDone(w, t)

\* runMiddleware(middleware, hook, ...args) (and, for a direct run(), run itself).
EnterHook(w, t, stage, result) ==
    LET w1 == [w EXCEPT !.tasks[t].stage = stage, !.tasks[t].result = result]
        rec == w1.tasks[t]
        hook == StageHook(rec)
    IN  IF rec.kind # "run" /\ rec.reg = NoMiddleware
        THEN Complete(w1, t, FALSE, Err("NoMiddleware"), "none")
        ELSE IF rec.kind # "run" /\ ~HooksLookup(hook)
        THEN Complete(w1, t, FALSE, Err("InvalidHook"), "none")
        ELSE IF StackLookup(hook) = "inherited"
        THEN Complete(w1, t, FALSE, Err("TypeError"), "none")   \* fns is not iterable
        ELSE RunFrom(w1, t, 1)

\* const result = await operation(...args)
StartOperation(w, t) ==
    LET rec == w.tasks[t]
    IN  IF rec.kind = "docSave" /\ rec.stage = "before" /\ ~w.handles[rec.handle].isNew
        THEN EnterHook(w, t, "inner.before", "none")      \* this.update(this.originalDocument)
        ELSE [ w EXCEPT !.tasks[t].stage = IF rec.stage = "inner.before" THEN "inner.op" ELSE "op",
                        !.tasks[t].pc = "awaitOp",
                        !.tasks[t].log = Append(@, Event("op", rec.kind, 0)) ]

HookDone(w, t) ==
    LET rec == w.tasks[t]
    IN  CASE rec.stage \in { "before", "inner.before" } -> StartOperation(w, t)
          [] OTHER -> Complete(w, t, TRUE, NoErr, rec.result)

\* A runCRUDOperation (or run) frame ends: return result, or catch and rethrow.
Complete(w, t, ok, err, result) ==
    LET rec == w.tasks[t]
        h == rec.handle
    IN  IF rec.stage \in { "inner.before", "inner.op", "inner.after" }
        THEN IF ok
             THEN \* update()'s .then, then the outer operation has resolved
                  EnterHook([ Emit(w, t, h, "OnUpdate")
                                EXCEPT !.handles[h].val = result, !.handles[h].isNew = FALSE ],
                            t, "after", result)
             ELSE Finish(w, t, FALSE, err, "none")
        ELSE Finish(w, t, ok, err, result)

\* What the driver call of each kind does to the database when it succeeds.
OpStore(w, rec) ==
    LET id == IF rec.kind \in DocumentKinds THEN w.handles[rec.handle].id ELSE rec.target
        newVal == IF rec.kind = "docSave" THEN w.handles[rec.handle].val ELSE "v1"
    IN  CASE rec.kind \in { "create", "runCRUDOperation" } -> [w.store EXCEPT ![id] = newVal]
          [] rec.kind = "docSave" /\ rec.stage = "op"       -> [w.store EXCEPT ![id] = newVal]
          [] rec.kind \in { "update", "docUpdate" } \/ (rec.kind = "docSave" /\ rec.stage # "op") ->
                 IF w.store[id] = Absent THEN w.store ELSE [w.store EXCEPT ![id] = "v1"]
          [] rec.kind \in { "delete", "deleteMany", "docDelete" } -> [w.store EXCEPT ![id] = Absent]
          [] OTHER -> w.store

\* What the operation resolves with.
OpResult(w, rec, newStore) ==
    LET id == IF rec.kind \in DocumentKinds THEN w.handles[rec.handle].id ELSE rec.target
    IN  CASE rec.kind \in { "delete", "deleteMany", "docDelete" } -> "deleteResult"
          [] rec.kind = "read" -> "list"
          [] OTHER -> IF newStore[id] = Absent THEN "null" ELSE newStore[id]

\* The driver call of a suspended operation settles: it succeeded (drvOk) or failed.
OperationSettles(w, t, drvOk) ==
    LET rec == w.tasks[t]
        st == OpStore(w, rec)
        res == OpResult(w, rec, st)
        w1 == [w EXCEPT !.tasks[t].log = Append(@, Event("opDone", rec.kind, 0))]
        \* mongoose clears isNew on the document a save() has inserted
        w2 == [ w1 EXCEPT !.store = st,
                          !.handles = IF rec.kind = "docSave" /\ rec.stage = "op"
                                      THEN [@ EXCEPT ![rec.handle].isNew = FALSE] ELSE @ ]
    IN  IF ~drvOk
        THEN Complete(w1, t, FALSE, Err("DriverError"), "none")
        ELSE IF rec.kind = "findById" /\ res = "null"
        THEN Complete(w2, t, FALSE, Err("NotFound"), "none")
        ELSE EnterHook(w2, t, IF rec.stage = "inner.op" THEN "inner.after" ELSE "after", res)

CallbackSettlesSwallowed(w, t) ==
    LET rec == w.tasks[t]
        fn == RunList(rec.reg, StageHook(rec))[rec.idx]
        w1 == [w EXCEPT !.tasks[t].log = Append(@, Event("cbDone", StageHook(rec), fn.id))]
    IN  RunFrom(w1, t, rec.idx + 1)

\* The callback a run is awaiting settles.
CallbackSettles(w, t) ==
    LET rec == w.tasks[t]
        fn == RunList(rec.reg, StageHook(rec))[rec.idx]
        w1 == [w EXCEPT !.tasks[t].log = Append(@, Event("cbDone", StageHook(rec), fn.id))]
    IN  IF fn.throws
        THEN Complete(w1, t, FALSE, CbErr(fn.id), "none")
        ELSE RunFrom(w1, t, rec.idx + 1)

\* A suspended call is resumed.
Resume(t, drvOk) ==
    /\ t \in 1..Len(tasks)
    /\ tasks[t].pc \in { "awaitCb", "awaitOp" }
    /\ tasks[t].pc = "awaitCb" => drvOk
    /\ Apply(IF tasks[t].pc = "awaitCb" THEN CallbackSettles(World, t)
                                        ELSE OperationSettles(World, t, drvOk))
    /\ UNCHANGED << middlewareStack, nUse, lastUse, listeners >>
    /\ UNCHANGED connVars

Count(kinds) == Cardinality({ t \in 1..Len(tasks) : tasks[t].kind \in kinds })

\* A call is made: the task is created and runs to its first suspension.
Call(rec, stage) ==
    /\ Apply(EnterHook([World EXCEPT !.tasks = Append(@, rec)], Len(tasks) + 1, stage, "none"))
    /\ UNCHANGED << middlewareStack, nUse, lastUse, listeners >>
    /\ UNCHANGED connVars

\* middleware.run(when) called directly.
CallRun(r, when) ==
    /\ Count({ "run", "runMiddleware" }) < MaxRuns
    /\ Call(NewTask("run", r, [before |-> when, after |-> when], "h1", "idX"), "run")

\* MongoHelperClass.runMiddleware(middleware, hook) called directly.
CallRunMiddleware(mw, hook) ==
    /\ Count({ "run", "runMiddleware" }) < MaxRuns
    /\ Call(NewTask("runMiddleware", mw, [before |-> hook, after |-> hook], "h1", "idX"), "run")

CrudKinds == CollectionKinds \cup DocumentKinds \cup { "runCRUDOperation" }

\* MongoHelperClass.runCRUDOperation called directly, with the caller's hooks
\* and an operation that inserts a record.
CallRunCRUDOperation(mw, pair, target) ==
    /\ Count(CrudKinds) < MaxCalls
    /\ Call(NewTask("runCRUDOperation", mw, pair, "h1", target), "before")

\* create, findById, read, readOne, update, delete, deleteMany of MongoCollection.
CallCollection(kind, target) ==
    /\ Count(CrudKinds) < MaxCalls
    /\ Call(NewTask(kind, "coll", CollectionPair(kind), "h1", target), "before")

\* save, update, delete of MongoDocument.
CallDocument(h, kind) ==
    /\ Count(CrudKinds) < MaxCalls
    /\ Call(NewTask(kind, h,
                    CASE kind = "docSave" -> IF handles[h].isNew THEN CreatePair ELSE UpdatePair
                      [] kind = "docUpdate" -> UpdatePair
                      [] kind = "docDelete" -> DeletePair,
                    h, handles[h].id), "before")

\* EventEmitter.on(event, callback) on a handle.
On(h, event) ==
    /\ NumListeners < MaxListeners
    /\ listeners' = [listeners EXCEPT ![h][event] = Append(@, NumListeners + 1)]
    /\ UNCHANGED << middlewareStack, nUse, lastUse, tasks, store, handles >>
    /\ UNCHANGED connVars

OnSave(h) == On(h, "OnSave")
OnUpdate(h) == On(h, "OnUpdate")
OnDelete(h) == On(h, "OnDelete")

\* ------------------------------------------------------ MongoDocument.copy
\* The handles copy() may produce, and the fields of one not produced yet.
Copies == { "h2" }
NoHandle == [isNew |-> FALSE, id |-> "none", val |-> "none", document |-> "unset"]

\* JSON.parse(JSON.stringify(_doc)) with _id deleted: field values are JSON
\* strings here, which the round trip keeps.
CopiedData(doc) == [val |-> doc.val]

\* new Model(data): a document that is new; mongoose gives it an _id of its own,
\* which no record and no other handle has.
FreshIds == { d \in DocIds : store[d] = Absent /\ \A h \in DOMAIN handles : handles[h].id # d }
NewModel(data, id) == [isNew |-> TRUE, id |-> id, val |-> data.val, document |-> "unset"]

CopyMiddlewareShared(h) == middlewareStack[h]

\* new MongoDocument(doc): this.middleware = new MongoMiddleware()
CopyMiddleware(h) == EmptyStack

\* copy() on handle h, yielding handle n: synchronous, no hook, no driver call.
Copy(h, n) ==
    /\ handles[h] # NoHandle /\ handles[n] = NoHandle
    /\ FreshIds # {}
    /\ handles' = [handles EXCEPT ![n] = NewModel(CopiedData(handles[h]), CHOOSE d \in FreshIds : TRUE)]
    /\ middlewareStack' = [middlewareStack EXCEPT ![n] = CopyMiddleware(h)]
    /\ listeners' = [listeners EXCEPT ![n] = [e \in EventNames |-> << >>]]
    /\ UNCHANGED << nUse, lastUse, tasks, store >>
    /\ UNCHANGED connVars

\* -------------------------------------------------------- MongoConnection
\* driver: whether the call issued a driver connect or disconnect when it was made.
ConnCall(kind, c, pc) ==
    [kind |-> kind, conn |-> c, pc |-> pc, err |-> NoErr,
     driver |-> (pc \in { "awaitConnect", "awaitDisconnect" })]

FlagAfterConnectAlways(c, ok) == [isConnected EXCEPT ![c] = TRUE]

\* connect(): this.isConnected = true runs only after the awaited driver connect
\* succeeded; the catch block rethrows and leaves the flag alone.
FlagAfterConnect(c, ok) ==
    IF ok THEN [isConnected EXCEPT ![c] = TRUE] ELSE isConnected

\* close(): this.isConnected = false, likewise.
FlagAfterClose(c, ok) ==
    IF ok THEN [isConnected EXCEPT ![c] = FALSE] ELSE isConnected

CallConnectUnguarded(c) ==
    /\ Len(connCalls) < MaxConnCalls
    /\ connCalls' = Append(connCalls, ConnCall("connect", c, "awaitConnect"))
    /\ UNCHANGED << isConnected, driverOpen >>
    /\ UNCHANGED hookVars

\* connect() is called: nothing to do when the flag is set, else the driver
\* connect is issued and awaited.
CallConnect(c) ==
    /\ Len(connCalls) < MaxConnCalls
    /\ connCalls' = Append(connCalls,
                           ConnCall("connect", c, IF isConnected[c] THEN "resolved" ELSE "awaitConnect"))
    /\ UNCHANGED << isConnected, driverOpen >>
    /\ UNCHANGED hookVars

\* close() is called.
CallClose(c) ==
    /\ Len(connCalls) < MaxConnCalls
    /\ connCalls' = Append(connCalls,
                           ConnCall("close", c, IF isConnected[c] THEN "awaitDisconnect" ELSE "resolved"))
    /\ UNCHANGED << isConnected, driverOpen >>
    /\ UNCHANGED hookVars

\* getCollection(name) is called: ensureConnected calls connect() unless the flag
\* is set, and is awaited either way.
CallGetCollection(c) ==
    /\ Len(connCalls) < MaxConnCalls
    /\ connCalls' = Append(connCalls,
                           ConnCall("getCollection", c, IF isConnected[c] THEN "awaitEnsure" ELSE "awaitConnect"))
    /\ UNCHANGED << isConnected, driverOpen >>
    /\ UNCHANGED hookVars

\* The promise a connection call awaits settles: the driver connect or disconnect
\* succeeded (ok) or failed, or ensureConnected returned.
ConnResume(i, ok) ==
    /\ i \in 1..Len(connCalls)
    /\ LET call == connCalls[i]
           c == call.conn
       IN  CASE call.pc = "awaitConnect" ->
                  /\ isConnected' = FlagAfterConnect(c, ok)
                  /\ driverOpen' = (ok \/ driverOpen)
                  /\ connCalls' = [connCalls EXCEPT
                         ![i].pc = IF ~ok THEN "rejected"
                                   ELSE IF call.kind = "getCollection" THEN "awaitEnsure"
                                   ELSE "resolved",
                         ![i].err = IF ok THEN NoErr ELSE Err("DriverError")]
             [] call.pc = "awaitDisconnect" ->
                  /\ isConnected' = FlagAfterClose(c, ok)
                  /\ driverOpen' = (driverOpen /\ ~ok)
                  /\ connCalls' = [connCalls EXCEPT
                         ![i].pc = IF ok THEN "resolved" ELSE "rejected",
                         ![i].err = IF ok THEN NoErr ELSE Err("DriverError")]
             [] call.pc = "awaitEnsure" ->
                  \* return new MongoCollection(mongoose.model(collectionName))
                  /\ ok
                  /\ connCalls' = [connCalls EXCEPT ![i].pc = "resolved"]
                  /\ UNCHANGED << isConnected, driverOpen >>
             [] OTHER -> FALSE
    /\ UNCHANGED hookVars

\* ------------------------------------------------------------------ Init
\* A handle wrapping a record read from the collection.
ExistingHandle == [isNew |-> FALSE, id |-> "idX", val |-> "v0", document |-> "unset"]
\* A handle wrapping a model instance that was never saved.
NewHandle == [isNew |-> TRUE, id |-> "idY", val |-> "v1", document |-> "unset"]

InitCommon ==
    /\ middlewareStack = [r \in Regs |-> EmptyStack]
    /\ nUse = 0
    /\ lastUse = [reg |-> "none", when |-> "none", err |-> NoErr]
    /\ tasks = << >>
    /\ store = [d \in DocIds |-> IF d = "idX" THEN "v0" ELSE Absent]
    /\ listeners = [h \in Handles |-> [e \in EventNames |-> << >>]]
    /\ isConnected = [c \in Conns |-> FALSE]      \* constructor
    /\ driverOpen = FALSE
    /\ connCalls = << >>

Init ==
    /\ InitCommon
    /\ handles = [h \in Handles |-> ExistingHandle]

InitDoc ==
    /\ InitCommon
    /\ handles \in [Handles -> { ExistingHandle, NewHandle }]

\* ------------------------------------------------- the callers' choices
\* hooks a direct caller of runCRUDOperation may pass
KeyPair == [before |-> "BEFORE_CREATE", after |-> "AFTER_CREATE"]

DirectPairs == { CreatePair, KeyPair, [before |-> "BEFORE_CREATE", after |-> "afterCreate"] }

\* names a direct caller of run may pass
RunInputs == { "bogus" } \cup ObjectPrototypeNames \cup HookNames

\* names a direct caller of runMiddleware may pass
RunMiddlewareInputs == { "BEFORE_CREATE", "bogus", "beforeCreate" } \cup ObjectPrototypeNames

\* the record a collection call is about: create inserts a new one, a lookup
\* may miss
Targets(kind) ==
    CASE kind = "create"                   -> { "idY" }
      [] kind \in { "findById", "readOne" } -> DocIds
      [] OTHER                             -> { "idX" }

\* ------------------------------------------------------------ the specs
\* The registry alone: use, run and runMiddleware.
NextRegistry ==
    \/ \E when \in HookNames, throws \in BOOLEAN : Use("coll", when, throws)
    \/ \E when \in RunInputs : CallRun("coll", when)
    \/ \E hook \in RunMiddlewareInputs : CallRunMiddleware("coll", hook)
    \/ CallRunMiddleware(NoMiddleware, "BEFORE_CREATE")
    \/ \E t \in 1..Len(tasks), drvOk \in BOOLEAN : Resume(t, drvOk)

SpecRegistry == Init /\ [][NextRegistry]_vars

\* use alone, on every registry.
NextUse ==
    \E r \in Regs, when \in NameInputs, throws \in BOOLEAN : Use(r, when, throws)

SpecUse == Init /\ [][NextUse]_vars

\* The collection's CRUD entry points and the operation runner.
Next ==
    \/ \E when \in HookNames, throws \in BOOLEAN : Use("coll", when, throws)
    \/ \E kind \in CollectionKinds : \E target \in Targets(kind) : CallCollection(kind, target)
    \/ \E pair \in DirectPairs : CallRunCRUDOperation("coll", pair, "idY")
    \/ \E t \in 1..Len(tasks), drvOk \in BOOLEAN : Resume(t, drvOk)

Spec == Init /\ [][Next]_vars

\* The document handle.
NextDoc ==
    \/ \E h \in Handles, when \in HookNames, throws \in BOOLEAN : Use(h, when, throws)
    \/ \E h \in Handles : OnSave(h)
    \/ \E h \in Handles : OnUpdate(h)
    \/ \E h \in Handles : OnDelete(h)
    \/ \E h \in Handles : On(h, "OnCreate")
    \/ \E h \in Handles, kind \in DocumentKinds : CallDocument(h, kind)
    \/ \E h \in Handles : CallRunCRUDOperation(h, KeyPair, "idY")
    \/ \E t \in 1..Len(tasks), drvOk \in BOOLEAN : Resume(t, drvOk)

SpecDoc == InitDoc /\ [][NextDoc]_vars

\* A handle and its copy.
InitCopy ==
    /\ middlewareStack = [r \in Regs \cup Copies |-> EmptyStack]
    /\ nUse = 0
    /\ lastUse = [reg |-> "none", when |-> "none", err |-> NoErr]
    /\ tasks = << >>
    /\ store = [d \in DocIds |-> IF d = "idX" THEN "v0" ELSE Absent]
    /\ handles = [h \in Handles \cup Copies |-> IF h \in Handles THEN ExistingHandle ELSE NoHandle]
    /\ listeners = [h \in Handles \cup Copies |-> [e \in EventNames |-> << >>]]
    /\ isConnected = [c \in Conns |-> FALSE]
    /\ driverOpen = FALSE
    /\ connCalls = << >>

Made == { h \in DOMAIN handles : handles[h] # NoHandle }

NextCopy ==
    \/ \E h \in Handles, n \in Copies : Copy(h, n)
    \/ \E h \in Made : Use(h, "beforeUpdate", FALSE)
    \/ \E h \in Made : OnUpdate(h)
    \/ \E h \in Made, kind \in { "docSave", "docUpdate" } : CallDocument(h, kind)

SpecCopy == InitCopy /\ [][NextCopy]_vars

\* The document handle's own calls: hooks, listeners, save/update/delete.
NextEvents ==
    \/ \E h \in Handles, throws \in BOOLEAN : Use(h, "beforeUpdate", throws)
    \/ \E h \in Handles : OnSave(h)
    \/ \E h \in Handles : OnUpdate(h)
    \/ \E h \in Handles : OnDelete(h)
    \/ \E h \in Handles, kind \in DocumentKinds : CallDocument(h, kind)

SpecEvents == InitDoc /\ [][NextEvents]_vars

\* The connection.
NextConn ==
    \/ \E c \in Conns : CallConnect(c)
    \/ \E c \in Conns : CallClose(c)
    \/ \E c \in Conns : CallGetCollection(c)
    \/ \E i \in 1..Len(connCalls), ok \in BOOLEAN : ConnResume(i, ok)

SpecConn == Init /\ [][NextConn]_vars

\* ================================================================ claims
TaskIds == 1..Len(tasks)

IsPrefix(a, b) == Len(a) <= Len(b) /\ \A i \in 1..Len(a) : a[i] = b[i]

\* What a run of the callbacks fns under hook logs when each is invoked once, in
\* order, and awaited before the next.
Awaited(fns, hook) ==
    [ i \in 1..(2 * Len(fns)) |->
        IF i % 2 = 1 THEN Event("cb", hook, fns[(i + 1) \div 2].id)
                     ELSE Event("cbDone", hook, fns[i \div 2].id) ]

Settled(rec) == rec.pc \in { "resolved", "rejected" }

\* ---------------------------------------------------------------- C3
DirectRuns == { t \in TaskIds : tasks[t].kind = "run" /\ tasks[t].before \in HookNames }

C3_InOrder ==
    \A t \in DirectRuns :
        LET rec == tasks[t]
            fns == middlewareStack[rec.reg][rec.before]
            n == Len(rec.log)
        IN  /\ IsPrefix(rec.log, Awaited(fns, rec.before))
            /\ rec.pc = "awaitCb" => n % 2 = 1
            /\ rec.pc = "resolved" => n % 2 = 0
            /\ rec.pc = "rejected" =>
                   /\ n > 0 /\ n % 2 = 0
                   /\ fns[n \div 2].throws
                   /\ rec.err = CbErr(fns[n \div 2].id)

C3_ResolvesAfterAll ==
    \A t \in 1..Len(tasks') :
        LET rec == tasks'[t]
        IN  ( /\ rec.kind = "run" /\ rec.before \in HookNames
              /\ rec.pc = "resolved"
              /\ (t > Len(tasks) \/ tasks[t].pc # "resolved") )
            => rec.log = Awaited(middlewareStack'[rec.reg][rec.before], rec.before)

\* C3: run(hookName) on a recognized name invokes every callback registered under
\* it exactly once, in registration order, each awaited before the next is
\* invoked, and fails only if a callback throws; with none registered it succeeds
\* having invoked nothing.
C3_RunInvokesAllInOrder == [](C3_InOrder) /\ [][C3_ResolvesAfterAll]_vars

\* a run that resolved after invoking two callbacks
C3_Witness ==
    \E t \in DirectRuns : tasks[t].pc = "resolved" /\ Len(tasks[t].log) = 4

\* ---------------------------------------------------------------- C4
\* C4: use() under a name that is not one of the eight recognized ones fails with
\* the invalid-hook error and leaves every hook list unchanged.
C4_UnknownNameFailsInvalidHook ==
    [][ (nUse' = nUse + 1 /\ lastUse'.when \notin HookNames)
          => (lastUse'.err = Err("InvalidHook") /\ middlewareStack' = middlewareStack) ]_vars

\* ---------------------------------------------------------------- C5
\* C5: a run or runMiddleware of a name that is not one of the eight recognized
\* ones fails with the invalid-hook error, having invoked no callback.
C5_UnknownNameRunFails ==
    \A t \in TaskIds :
        ( /\ tasks[t].kind \in { "run", "runMiddleware" }
          /\ tasks[t].reg # NoMiddleware
          /\ tasks[t].before \notin HookNames )
        => ( /\ tasks[t].pc = "rejected"
             /\ tasks[t].err = Err("InvalidHook")
             /\ tasks[t].log = << >> )

\* ------------------------------------------------- C1, C2, C6, C7: CRUD
\* The callbacks registered under hook on the call's registry before the call.
CallbacksAt(rec, hook) ==
    SelectSeq(middlewareStack[rec.reg][hook], LAMBDA f : f.id <= rec.regAt)

NoneThrows(fns) == \A i \in 1..Len(fns) : ~fns[i].throws

OpEvents(rec) == << Event("op", rec.kind, 0), Event("opDone", rec.kind, 0) >>

\* before-hook, then the driver call, then after-hook
FullLog(rec) ==
    Awaited(CallbacksAt(rec, rec.before), rec.before) \o OpEvents(rec)
        \o Awaited(CallbacksAt(rec, rec.after), rec.after)

Has(rec, ev) == \E i \in 1..Len(rec.log) : rec.log[i].ev = ev

\* The call ended because its driver call failed, after the whole before-hook.
DriverFailed(rec) ==
    /\ rec.pc = "rejected"
    /\ rec.err \in { Err("DriverError"), Err("NotFound") }
    /\ rec.log = Awaited(CallbacksAt(rec, rec.before), rec.before) \o OpEvents(rec)

\* C1: a collection CRUD call whose registered callbacks all succeed invokes every
\* before callback, then the driver call, then every after callback, and
\* resolves with the result; it fails only if the driver call does.
C1_CrudRunsHooksAroundDriver ==
    \A t \in TaskIds :
        LET rec == tasks[t]
        IN  ( /\ rec.kind \in CollectionKinds
              /\ Settled(rec)
              /\ rec.regAt = nUse
              /\ NoneThrows(CallbacksAt(rec, rec.before))
              /\ NoneThrows(CallbacksAt(rec, rec.after)) )
            => \/ DriverFailed(rec)
               \/ rec.pc = "resolved" /\ rec.result # "none" /\ rec.log = FullLog(rec)

\* C2: each create call, alone or beside another, runs its whole before-hook, then
\* the operation, then its after-hook, and never the after-hook when the
\* operation failed.
C2_BeforeOperationAfterPerCall ==
    \A t \in TaskIds :
        LET rec == tasks[t]
        IN  ( rec.kind = "create" /\ rec.regAt = nUse )
            => /\ IsPrefix(rec.log, FullLog(rec))
               /\ rec.err = Err("DriverError") => Len(rec.log) = Len(FullLog(rec)) - 2 * Len(CallbacksAt(rec, rec.after))
               /\ (Settled(rec) /\ NoneThrows(CallbacksAt(rec, rec.before))) => Has(rec, "op")

EntryKinds == CollectionKinds \cup DocumentKinds

\* C6: a CRUD call whose before-hook has a throwing callback fails with that
\* callback's error, without the driver call, any after callback or a result.
C6_BeforeHookFailureAborts ==
    \A t \in TaskIds :
        LET rec == tasks[t]
            fns == CallbacksAt(rec, rec.before)
        IN  ( /\ rec.kind \in EntryKinds
              /\ Settled(rec)
              /\ Len(fns) > 0 /\ fns[1].throws )
            => /\ rec.pc = "rejected"
               /\ rec.err = CbErr(fns[1].id)
               /\ rec.result = "none"
               /\ rec.log = << Event("cb", rec.before, fns[1].id), Event("cbDone", rec.before, fns[1].id) >>

\* C7: a create, update or delete whose before-hook succeeds and whose after-hook
\* has a throwing callback fails with that callback's error while the mutation
\* the driver made stays in the store (unless the driver call itself failed).
C7_AfterHookFailureKeepsMutation ==
    \A t \in TaskIds :
        LET rec == tasks[t]
            fns == CallbacksAt(rec, rec.after)
        IN  ( /\ rec.kind \in { "create", "update", "delete" }
              /\ Settled(rec)
              /\ NoneThrows(CallbacksAt(rec, rec.before))
              /\ Len(fns) > 0 /\ fns[1].throws )
            => \/ DriverFailed(rec)
               \/ /\ rec.pc = "rejected"
                  /\ rec.err = CbErr(fns[1].id)
                  /\ Has(rec, "opDone")
                  /\ rec.kind = "create" => store[rec.target] # Absent

\* ------------------------------------------------------ C8, C9: documents
ListenersAt(rec, event) ==
    SelectSeq(listeners[rec.handle][event], LAMBDA l : l <= rec.lisAt)

Emits(rec, event) ==
    Cardinality({ i \in 1..Len(rec.log) : rec.log[i] = Event("emit", event, 0) })

Invoked(rec, event, l) ==
    \E i \in 1..Len(rec.log) : rec.log[i] = Event("listener", event, l)

HooksSucceed(rec) ==
    /\ NoneThrows(CallbacksAt(rec, rec.before))
    /\ NoneThrows(CallbacksAt(rec, rec.after))

\* C8: a save() on a new handle runs the create hook pair and, unless the driver
\* fails, leaves the handle not new having emitted OnCreate once and no OnUpdate;
\* a save() on a handle that is not new runs the update pair and emits OnUpdate.
C8_SaveRoutesCreateThenUpdate ==
    \A t \in TaskIds :
        LET rec == tasks[t]
        IN  ( rec.kind = "docSave" /\ Settled(rec) /\ HooksSucceed(rec) )
            => \/ rec.pc = "rejected" /\ rec.err = Err("DriverError") /\ Has(rec, "op")
               \/ /\ rec.pc = "resolved"
                  /\ ~handles[rec.handle].isNew
                  /\ IF rec.before = Hooks.BEFORE_CREATE
                     THEN Emits(rec, "OnCreate") = 1 /\ Emits(rec, "OnUpdate") = 0
                     ELSE Emits(rec, "OnUpdate") >= 1 /\ Emits(rec, "OnCreate") = 0

\* the event each registration method is documented to listen for
ListenedEvent(kind) ==
    CASE kind = "docSave" -> "OnSave" [] kind = "docUpdate" -> "OnUpdate" [] kind = "docDelete" -> "OnDelete"

\* C9: a save(), update() or delete() on a handle that succeeds invokes the
\* callbacks registered on it with onSave, onUpdate or onDelete; with succeeding
\* hooks the call fails only if the driver call does.
C9_RegisteredListenersInvoked ==
    \A t \in TaskIds :
        LET rec == tasks[t]
        IN  ( rec.kind \in DocumentKinds /\ Settled(rec) /\ HooksSucceed(rec) )
            => \/ rec.pc = "rejected" /\ rec.err = Err("DriverError") /\ Has(rec, "op")
               \/ /\ rec.pc = "resolved"
                  /\ \A i \in 1..Len(ListenersAt(rec, ListenedEvent(rec.kind))) :
                         Invoked(rec, ListenedEvent(rec.kind), ListenersAt(rec, ListenedEvent(rec.kind))[i])

\* ---------------------------------------------------------------- C10
\* A connect() call that found the flag unset and awaits the driver settles.
C10_ConnectSettles ==
    \A i \in 1..Len(connCalls) :
        LET call == connCalls[i]
            c == call.conn
        IN  ( call.kind = "connect" /\ call.pc = "awaitConnect" /\ connCalls'[i].pc # "awaitConnect" )
            => IF connCalls'[i].pc = "rejected"
               THEN connCalls'[i].err = Err("DriverError") /\ isConnected'[c] = isConnected[c]
               ELSE connCalls'[i].pc = "resolved" /\ isConnected'[c]

\* The flag of a connection is set only if a driver connect it issued succeeded.
C10_FlagNeedsSuccess ==
    \A c \in Conns :
        isConnected[c] =>
            \E i \in 1..Len(connCalls) :
                /\ connCalls[i].conn = c
                /\ connCalls[i].kind \in { "connect", "getCollection" }
                /\ connCalls[i].pc \in { "resolved", "awaitEnsure" }

\* A connect() called while the flag is unset issues the driver connect.
C10_DisconnectedConnectTriesDriver ==
    \A i \in 1..Len(connCalls') :
        ( i > Len(connCalls) /\ connCalls'[i].kind = "connect" /\ ~isConnected[connCalls'[i].conn] )
            => connCalls'[i].pc = "awaitConnect"

\* C10: a connect() on a disconnected connection whose driver connect fails
\* rejects with the driver's error and leaves the flag as it was, so that the
\* flag is never set without a successful driver connect and a later connect()
\* tries the driver again; when the driver connect succeeds the flag is set.
C10_ConnectFailureLeavesFlag ==
    /\ [](C10_FlagNeedsSuccess)
    /\ [][C10_ConnectSettles /\ C10_DisconnectedConnectTriesDriver]_vars

\* a connect() failed, the flag stayed unset, and a second connect() on the same
\* connection is awaiting the driver
C10_Witness ==
    \E i, j \in 1..Len(connCalls) :
        /\ i < j
        /\ connCalls[i].conn = connCalls[j].conn
        /\ connCalls[i].kind = "connect" /\ connCalls[i].pc = "rejected"
        /\ connCalls[j].kind = "connect" /\ connCalls[j].pc = "awaitConnect"
        /\ ~isConnected[connCalls[i].conn]

\* ---------------------------------------------------------------- C11
NewConnCalls == { i \in 1..Len(connCalls') : i > Len(connCalls) }

C11_IdempotentStep ==
    \A i \in NewConnCalls :
        LET call == connCalls'[i]
            c == call.conn
        IN  /\ ( call.kind = "connect" /\ isConnected[c] )
                => ( ~call.driver /\ call.pc = "resolved" /\ isConnected'[c] /\ driverOpen' = driverOpen )
            /\ ( call.kind = "close" /\ ~isConnected[c] )
                => ( ~call.driver /\ call.pc = "resolved" /\ ~isConnected'[c] /\ driverOpen' = driverOpen )

\* C11: connect() called while the flag is set issues no driver connect, returns
\* at once and leaves the flag set; close() called while the flag is unset
\* issues no driver disconnect, returns at once and leaves the flag unset.
C11_ConnectCloseIdempotent == [][C11_IdempotentStep]_vars

\* on one connection: a close() that found the flag unset, and a connect() that
\* found it set, both returned without a driver call
C11_Witness ==
    \E i, j, k \in 1..Len(connCalls) :
        /\ connCalls[i].conn = connCalls[j].conn /\ connCalls[j].conn = connCalls[k].conn
        /\ connCalls[i].kind = "close" /\ ~connCalls[i].driver /\ connCalls[i].pc = "resolved"
        /\ j < k
        /\ connCalls[j].kind = "connect" /\ connCalls[j].driver /\ connCalls[j].pc = "resolved"
        /\ connCalls[k].kind = "connect" /\ ~connCalls[k].driver /\ connCalls[k].pc = "resolved"
        /\ isConnected[connCalls[k].conn]

\* ---------------------------------------------------------------- C12
C12_OneSessionStep ==
    \A i \in NewConnCalls :
        LET call == connCalls'[i]
            c == call.conn
        IN  ( call.driver /\ call.pc = "awaitConnect" )
            => /\ ~isConnected[c]
               /\ ~\E j \in 1..Len(connCalls) :
                      connCalls[j].conn = c /\ connCalls[j].pc = "awaitConnect"

\* C12: on one connection, no call (connect() or getCollection()) issues the
\* driver connect while a driver connect issued earlier by that connection is
\* still awaited, or has succeeded and the connection has not closed since
\* (its flag is set).
C12_AtMostOneDriverSession == [][C12_OneSessionStep]_vars

\* ---------------------------------------------------------------- C13
\* getCollection called while the flag is unset issues the driver connect.
C13_ConnectsWhenNeeded ==
    \A i \in NewConnCalls :
        ( connCalls'[i].kind = "getCollection" /\ ~isConnected[connCalls'[i].conn] )
            => ( connCalls'[i].driver /\ connCalls'[i].pc = "awaitConnect" )

\* The step in which getCollection resolves ends in a state whose flag is set.
C13_ResolvesConnected ==
    \A i \in 1..Len(connCalls) :
        ( /\ connCalls[i].kind = "getCollection"
          /\ connCalls[i].pc # "resolved" /\ connCalls'[i].pc = "resolved" )
            => isConnected'[connCalls[i].conn]

\* When the implicit connect fails, getCollection fails with it.
C13_FailsWithConnect ==
    \A i \in 1..Len(connCalls) :
        ( /\ connCalls[i].kind = "getCollection" /\ connCalls[i].pc = "awaitConnect"
          /\ connCalls'[i].pc # "awaitConnect" /\ ~isConnected'[connCalls[i].conn] )
            => ( connCalls'[i].pc = "rejected" /\ connCalls'[i].err = Err("DriverError") )

\* C13: getCollection issues connect() when the flag is unset, resolves with a
\* collection handle only in a state whose flag is set, and is rejected, with
\* no handle, when the connect it issued fails.
C13_GetCollectionEnsuresConnection ==
    [][C13_ConnectsWhenNeeded /\ C13_ResolvesConnected /\ C13_FailsWithConnect]_vars

\* ---------------------------------------------------------------- C14
ReadKinds == { "findById", "read", "readOne" }

\* C14: when no record has the identity asked for (and no call writes to the
\* store), a readOne whose registered callbacks succeed resolves with null unless the driver
\* itself fails, while a findById fails.
C14_ReadOneNullFindByIdFails ==
    \A t \in TaskIds :
        LET rec == tasks[t]
        IN  ( /\ rec.kind \in { "readOne", "findById" }
              /\ Settled(rec)
              /\ rec.regAt = nUse /\ HooksSucceed(rec)
              /\ store[rec.target] = Absent
              /\ \A u \in TaskIds : tasks[u].kind \in ReadKinds )
            => IF rec.kind = "readOne"
               THEN \/ rec.pc = "resolved" /\ rec.result = "null"
                    \/ rec.pc = "rejected" /\ rec.err = Err("DriverError") /\ Has(rec, "op")
               ELSE rec.pc = "rejected" /\ rec.err \in { Err("NotFound"), Err("DriverError") }
                    /\ Has(rec, "op")

\* ---------------------------------------------------------------- C15
NoListeners == [e \in EventNames |-> << >>]

IdsOf(r) ==
    UNION { { middlewareStack[r][w][i].id : i \in 1..Len(middlewareStack[r][w]) } : w \in HookNames }

ListenerIdsOf(h) ==
    UNION { { listeners[h][e][i] : i \in 1..Len(listeners[h][e]) } : e \in EventNames }

\* The step in which copy() yields handle n.
C15_CopyStep ==
    \A n \in Copies :
        ( handles[n] = NoHandle /\ handles'[n] # NoHandle )
            => /\ \E h \in Handles : handles'[n].val = handles[h].val
               /\ handles'[n].isNew
               /\ \A h \in Made : handles'[n].id # handles[h].id
               /\ store[handles'[n].id] = Absent
               /\ middlewareStack'[n] = EmptyStack
               /\ listeners'[n] = NoListeners
               /\ tasks' = tasks /\ store' = store
               /\ \A h \in Handles :
                      /\ handles'[h] = handles[h]
                      /\ middlewareStack'[h] = middlewareStack[h]
                      /\ listeners'[h] = listeners[h]

\* A handle's hook lists change only by a use() on that handle, its listeners
\* only by a registration on it, and a record only by a call on a handle that
\* has its identity.
C15_FrameStep ==
    /\ \A h \in DOMAIN handles :
           middlewareStack'[h] # middlewareStack[h] => ( nUse' = nUse + 1 /\ lastUse'.reg = h )
    /\ \A h, g \in DOMAIN handles :
           ( h # g /\ listeners'[h] # listeners[h] ) => listeners'[g] = listeners[g]
    /\ \A d \in DocIds :
           store'[d] # store[d]
               => \E t \in 1..Len(tasks') :
                      /\ t > Len(tasks) \/ tasks'[t] # tasks[t]
                      /\ handles[tasks'[t].handle].id = d

\* What a call on a handle invokes is registered on that handle, and no callback
\* or listener is registered on both.
C15_OwnCallbacksOnly ==
    /\ \A h, g \in Made : h # g => ( IdsOf(h) \cap IdsOf(g) = {} /\ ListenerIdsOf(h) \cap ListenerIdsOf(g) = {} )
    /\ \A t \in TaskIds :
           \A i \in 1..Len(tasks[t].log) :
               LET e == tasks[t].log[i]
               IN  /\ e.ev = "cb" => e.id \in IdsOf(tasks[t].reg)
                   /\ e.ev = "listener" => e.id \in ListenerIdsOf(tasks[t].handle)

C16_StopsAtFailure ==
    \A t \in DirectRuns :
        LET rec == tasks[t]
            fns == middlewareStack[rec.reg][rec.before]
        IN  \A k \in 1..Len(fns) :
                ( /\ fns[k].throws
                  /\ \A j \in 1..(k - 1) : ~fns[j].throws
                  /\ Len(rec.log) >= 2 * k )
                => /\ rec.pc = "rejected"
                   /\ rec.err = CbErr(fns[k].id)
                   /\ rec.log = Awaited(SubSeq(fns, 1, k), rec.before)

C16_RejectedStays ==
    \A t \in DirectRuns : tasks[t].pc = "rejected" => tasks'[t] = tasks[t]

\* C16: once a callback invoked by run(hookName) has thrown, the run is rejected
\* with that callback's error, having invoked each callback before it once and
\* none after it, and it invokes nothing afterwards.
C16_RunStopsAtFailingCallback == [](C16_StopsAtFailure) /\ [][C16_RejectedStays]_vars

\* a run over two callbacks was rejected by the second, after the first
C16_Witness ==
    \E t \in DirectRuns :
        LET fns == middlewareStack[tasks[t].reg][tasks[t].before]
        IN  /\ Len(fns) = 2 /\ ~fns[1].throws /\ fns[2].throws
            /\ tasks[t].pc = "rejected" /\ tasks[t].err = CbErr(fns[2].id)
            /\ Len(tasks[t].log) = 4

\* ---------------------------------------------------------------- C17
LifecycleEvents == { "OnCreate", "OnUpdate", "OnDelete" }

EmitsAt(rec) == { i \in 1..Len(rec.log) : rec.log[i].ev = "emit" /\ rec.log[i].hook \in LifecycleEvents }

Invocations(rec, hook, id) ==
    Cardinality({ i \in 1..Len(rec.log) : rec.log[i] = Event("cb", hook, id) })

EachOnce(rec, hook) ==
    \A i \in 1..Len(CallbacksAt(rec, hook)) : Invocations(rec, hook, CallbacksAt(rec, hook)[i].id) = 1

\* C18: a save() on a handle that is not new, whose callbacks all succeed, ends,
\* unless the driver fails, resolved, having invoked each beforeUpdate and each
\* afterUpdate callback registered on the handle once and emitted OnUpdate once.
C18_SaveNotNewUpdatesOnce ==
    \A t \in TaskIds :
        LET rec == tasks[t]
        IN  ( /\ rec.kind = "docSave" /\ rec.before = Hooks.BEFORE_UPDATE
              /\ Settled(rec)
              /\ rec.regAt = nUse /\ HooksSucceed(rec) )
            => \/ rec.pc = "rejected" /\ rec.err = Err("DriverError") /\ Has(rec, "op")
               \/ /\ rec.pc = "resolved"
                  /\ EachOnce(rec, Hooks.BEFORE_UPDATE)
                  /\ EachOnce(rec, Hooks.AFTER_UPDATE)
                  /\ Emits(rec, "OnUpdate") = 1

\* ---------------------------------------------------------------- C19
\* The OnUpdate listener invocations a call made.
UpdateListenerEvents(rec) ==
    { i \in 1..Len(rec.log) : rec.log[i].ev = "listener" /\ rec.log[i].hook = "OnUpdate" }

\* C19: an update() on a handle with an OnUpdate listener, whose callbacks all
\* succeed, ends, unless the driver fails, resolved with the updated record,
\* having invoked the listener, and every OnUpdate listener it invoked was
\* handed the handle holding that updated record.
C19_UpdateListenerSeesUpdated ==
    \A t \in TaskIds :
        LET rec == tasks[t]
        IN  ( /\ rec.kind = "docUpdate"
              /\ Settled(rec)
              /\ rec.regAt = nUse /\ HooksSucceed(rec)
              /\ ListenersAt(rec, "OnUpdate") # << >> )
            => \/ rec.pc = "rejected" /\ rec.err = Err("DriverError") /\ Has(rec, "op")
               \/ /\ rec.pc = "resolved"
                  /\ UpdateListenerEvents(rec) # {}
                  /\ \A i \in UpdateListenerEvents(rec) : rec.log[i].seen = rec.result

\* ---------------------------------------------------------------- C20
\* No connection call is awaiting the driver.
NoneInFlight ==
    \A i \in 1..Len(connCalls) : connCalls[i].pc \notin { "awaitConnect", "awaitDisconnect" }

\* C20: whenever no connect() or close() is awaiting the driver, the flag of each
\* MongoConnection (of the several that share mongoose's one connection) is set
\* exactly when that driver connection is open.
C20_FlagIffDriverOpen ==
    NoneInFlight => \A c \in Conns : isConnected[c] = driverOpen

====
